---------------------------- MODULE Spec2Model ----------------------------
(***************************************************************************)
(* Model of the content-analysis pipeline of the video metadata service:   *)
(* the text heuristics (app/services/content_analyzer.py), the three       *)
(* analysis backends (app/ai/backends/*.py) and the backend manager        *)
(* (app/ai/manager.py).                                                    *)
(*                                                                         *)
(* Texts.  A transcript is a sequence of words joined by single spaces;    *)
(* a filename is one word followed by ".mp4".  The words are               *)
(*   "im"      the introduction "I'm"                                      *)
(*   "Jane"    a capitalised word ([A-Z][a-z]+ read case-sensitively)      *)
(*   "testing" a lower-case word that is a topic keyword                   *)
(*   "a", "python", "teaching"  filename stems; "python" is a Technology   *)
(*             keyword, "teaching" an Education keyword                    *)
(* Every regular expression and keyword list of the source is evaluated    *)
(* on these words as the source evaluates it on the characters.            *)
(* Strings built by the code carry their character length (len).           *)
(* Confidence scores are in hundredths (0.3 is 30).  Python's None and ""  *)
(* for an instructor name are both the empty sequence: every test of the   *)
(* source on that field is a truthiness test.                              *)
(***************************************************************************)
EXTENDS Integers, Sequences, FiniteSets, TLC

\* The longest transcript, in words.
MaxWords == 3

Vocab == {"im", "Jane", "testing"}
FileStems == {"a", "python", "teaching"}

Transcripts == UNION {[1..n -> Vocab] : n \in 0..MaxWords}
Filenames == FileStems

Min(a, b) == IF a < b THEN a ELSE b
Max(a, b) == IF a > b THEN a ELSE b
Range(s) == {s[i] : i \in DOMAIN s}

\* len(word)
WordLen(w) ==
  CASE w = "im" -> 3
    [] w = "Jane" -> 4
    [] w = "python" -> 6
    [] w = "testing" -> 7
    [] w = "a" -> 1
    [] w = "teaching" -> 8
    [] w = "instructor" -> 10
    [] OTHER -> 0

\* word.lower()
Lower(w) == CASE w = "im" -> "i'm" [] w = "Jane" -> "jane" [] OTHER -> w

\* Words matched by [A-Z][a-z]+ as written, and under re.IGNORECASE.
CapWords == {"Jane"}
AlphaWords == {"Jane", "python", "testing", "instructor"}

RECURSIVE SumLen(_)
SumLen(s) == IF s = <<>> THEN 0 ELSE WordLen(Head(s)) + SumLen(Tail(s))

\* len(" ".join(words))
StrLen(s) == IF s = <<>> THEN 0 ELSE SumLen(s) + Len(s) - 1

\* len(filename)
FileLen(f) == WordLen(f) + 4

\* A string the code builds: what it is, and its length in characters.
Str(txt, n) == [txt |-> txt, len |-> n]

NoName == <<>>

Categories == {"Technology", "Business", "Education", "Health", "Science", "Unknown"}

(***************************************************************************)
(* ContentAnalyzer (app/services/content_analyzer.py)                      *)
(***************************************************************************)

\* `kw in text.lower()` and \bkw\b: on these words a keyword occurs in a
\* text exactly when it is one of the text's words, lower-cased.
Occurs(kw, words) == \E i \in DOMAIN words : Lower(words[i]) = kw
Hits(kws, words) == Cardinality({i \in DOMAIN words : Lower(words[i]) \in kws})

\* The end of the longest run of [A-Z][a-z]+ words (IGNORECASE) from i.
RECURSIVE RunEnd(_, _)
RunEnd(t, i) ==
  IF i + 1 <= Len(t) /\ t[i + 1] \in AlphaWords THEN RunEnd(t, i + 1) ELSE i

SetMin(S) == CHOOSE x \in S : \A y \in S : x <= y

\* instructor_patterns[0]: (?:I'm|...)\s+([A-Z][a-z]+(?:\s+[A-Z][a-z]+)+)
\* under re.IGNORECASE: the leftmost "I'm" followed by two or more words,
\* the group taking every word that follows.  <<>> is no match.
IntroCapture(t) ==
  LET I == {i \in 1..(Len(t) - 2) :
              t[i] = "im" /\ t[i + 1] \in AlphaWords /\ t[i + 2] \in AlphaWords}
  IN  IF I = {} THEN <<>>
      ELSE SubSeq(t, SetMin(I) + 1, RunEnd(t, SetMin(I) + 1))

\* instructor_patterns[2]: (?:...|instructor|...)(?:\s+is)?\s+([A-Z][a-z]+\s+[A-Z][a-z]+)
TitleCapture(t) ==
  LET I == {i \in 1..(Len(t) - 2) :
              t[i] = "instructor" /\ t[i + 1] \in AlphaWords /\ t[i + 2] \in AlphaWords}
  IN  IF I = {} THEN <<>>
      ELSE SubSeq(t, SetMin(I) + 1, SetMin(I) + 2)

\* The patterns in their declared order.  Patterns [1], [3] and [4] need
\* "Welcome", "will be|am|is" before "teaching|..." or "Your instructor",
\* which no text of the model holds: they never match.
InstructorCaptures(t) == <<IntroCapture(t), <<>>, TitleCapture(t), <<>>, <<>>>>

FalsePositiveWords == {"thank", "good", "welcome", "let", "going", "able", "want"}

IsValidName(name) ==
  /\ name # <<>>
  /\ StrLen(name) >= 3
  /\ StrLen(name) <= 50
  /\ Len(name) >= 2
  /\ \A i \in DOMAIN name : name[i] \in CapWords
  /\ ~ \E i \in DOMAIN name : Lower(name[i]) \in FalsePositiveWords

\* The first pattern, in order, whose match the validator accepts.
RECURSIVE FirstValid(_, _)
FirstValid(caps, k) ==
  IF k > Len(caps) THEN NoName
  ELSE IF caps[k] # <<>> /\ IsValidName(caps[k]) THEN caps[k]
  ELSE FirstValid(caps, k + 1)

ExtractInstructorName(t) ==
  IF t = <<>> THEN NoName ELSE FirstValid(InstructorCaptures(t), 1)

\* topic_patterns, the single words of each category's three patterns
\* (the two-word alternatives need words no text of the model holds).
TopicWords(cat) ==
  CASE cat = "Technology" ->
         {"python", "javascript", "java", "programming", "code", "coding",
          "software", "development", "api", "database", "algorithm",
          "cybersecurity", "network", "server", "framework", "library",
          "git", "docker", "kubernetes"}
    [] cat = "Business" ->
         {"management", "leadership", "strategy", "marketing", "sales",
          "finance", "accounting", "budget", "communication", "negotiation",
          "entrepreneurship", "startup", "roi", "revenue", "profit", "analytics"}
    [] cat = "Health" ->
         {"medical", "healthcare", "patient", "clinical", "diagnosis",
          "treatment", "therapy", "wellness", "nutrition", "fitness", "safety",
          "pharmaceutical", "nursing", "surgery", "anatomy", "physiology"}
    [] cat = "Education" ->
         {"teaching", "learning", "curriculum", "pedagogy", "assessment",
          "classroom", "student", "education", "academic", "research",
          "university", "college", "training"}
    [] OTHER -> {}

\* The insertion order of topic_patterns, which max() follows on a tie.
TopicOrder == <<"Technology", "Business", "Health", "Education">>

\* detect_category with max() keeping the last of the equal scores.
DetectCategoryLast(t, f) ==
  LET text == t \o <<f>>
      score(c) == Hits(TopicWords(c), text)
      best == Max(Max(score("Technology"), score("Business")),
                  Max(score("Health"), score("Education")))
      ties == {k \in DOMAIN TopicOrder : score(TopicOrder[k]) = best}
      last == CHOOSE k \in ties : \A j \in ties : j <= k
  IN  IF best > 0 THEN TopicOrder[last] ELSE "Unknown"

DetectCategory(t, f) ==
  LET text == t \o <<f>>
      score(c) == Hits(TopicWords(c), text)
      best == Max(Max(score("Technology"), score("Business")),
                  Max(score("Health"), score("Education")))
      first == SetMin({k \in DOMAIN TopicOrder : score(TopicOrder[k]) = best})
  IN  IF best > 0 THEN TopicOrder[first] ELSE "Unknown"

\* len(topic) of the topics the model's words can produce.
TopicLen(topic) ==
  CASE topic = "Testing" -> 7
    [] topic = "Testing Methodologies" -> 21
    [] topic = "Python Development" -> 18
    [] topic = "Role-Playing Techniques" -> 23
    [] OTHER -> 0

\* training_concept_patterns: of their words the model holds "testing"
\* (third pattern); the match is title-cased.
ConceptTopics(t) == IF Occurs("testing", t) THEN {"Testing"} ELSE {}

\* _analyze_training_context: guarded by words no text of the model holds.
ContextTopics(t) ==
  IF /\ \E k \in {"code", "programming", "development", "software", "api", "database"} :
          Occurs(k, t)
     /\ Occurs("python", t)
  THEN {"Python Development"}
  ELSE {}

\* _extract_roleplay_topics: needs "role play" or "roleplay".
RoleplayTopics(t) == IF Occurs("roleplay", t) THEN {"Role-Playing Techniques"} ELSE {}

\* _extract_process_topics
ProcessTopics(t) == IF Occurs("testing", t) THEN {"Testing Methodologies"} ELSE {}

\* sorted(list(training_topics))[:10]: the topics above in string order.
TopicsInOrder ==
  <<"Python Development", "Role-Playing Techniques", "Testing", "Testing Methodologies">>

RECURSIVE SortedFrom(_, _)
SortedFrom(S, k) ==
  IF k > Len(TopicsInOrder) THEN <<>>
  ELSE (IF TopicsInOrder[k] \in S THEN <<TopicsInOrder[k]>> ELSE <<>>)
         \o SortedFrom(S, k + 1)

SortedTopics(S) == SubSeq(SortedFrom(S, 1), 1, Min(10, Len(SortedFrom(S, 1))))

RECURSIVE JoinLen(_)
JoinLen(s) ==
  IF s = <<>> THEN 0
  ELSE TopicLen(Head(s)) + (IF Len(s) > 1 THEN 2 ELSE 0) + JoinLen(Tail(s))

\* _identify_general_subject: a subject needs two of its keywords.
SubjectWords ==
  << {"programming", "software", "development", "code", "api", "database", "system"},
     {"management", "leadership", "client", "customer", "sales", "marketing", "strategy"},
     {"presentation", "speaking", "communication", "negotiation", "discussion"},
     {"training", "learning", "education", "teaching", "instruction", "assessment"},
     {"project", "planning", "coordination", "timeline", "delivery", "stakeholder"} >>
SubjectNames == <<"Technology", "Business", "Communication", "Training", "Project Management">>
SubjectLens == <<28, 26, 31, 26, 36>>

IdentifyGeneralSubject(t) ==
  LET K == {k \in DOMAIN SubjectWords :
              Cardinality({w \in SubjectWords[k] : Occurs(w, t)}) >= 2}
  IN  IF K = {} THEN Str(<<"Professional Development Training">>, 33)
      ELSE Str(<<SubjectNames[SetMin(K)], "Training Concepts">>, SubjectLens[SetMin(K)])

ExtractComprehensiveTopics(t) ==
  IF t = <<>> THEN Str(<<"No content available for analysis">>, 33)
  ELSE LET topics == ConceptTopics(t) \cup ContextTopics(t)
                       \cup RoleplayTopics(t) \cup ProcessTopics(t)
       IN  IF topics # {}
           THEN Str(<<"Training Topics:">> \o SortedTopics(topics),
                    17 + JoinLen(SortedTopics(topics)))
           ELSE IdentifyGeneralSubject(t)

CalculateConfidence(instructor_found, topics_extracted, transcript_length) ==
  LET s1 == 30 + (IF instructor_found THEN 30 ELSE 0)
      s2 == s1 + (IF topics_extracted THEN 30 ELSE 0)
      s3 == IF transcript_length > 500 THEN s2 + 10
            ELSE IF transcript_length > 1000 THEN s2 + 20
            ELSE s2
  IN  Min(100, s3)

(***************************************************************************)
(* Values                                                                  *)
(***************************************************************************)

\* dict.get(k, default); a dict is a function from its keys.
Get(d, k, dflt) == IF k \in DOMAIN d THEN d[k] ELSE dflt

\* d[k] = v
SetItem(d, k, v) == [x \in DOMAIN d \cup {k} |-> IF x = k THEN v ELSE d[x]]

\* JSON values of a model answer: a key that is missing, null, a number,
\* a string (its words, its length).
Missing == [j |-> "missing"]
JNull == [j |-> "null"]
JNum(n) == [j |-> "num", n |-> n]
JStr(words, n) == [j |-> "str", s |-> words, len |-> n]

\* What a call gives back: a dict, a coroutine object, or an exception.
Returned(d) == [kind |-> "dict", d |-> d]
Coroutine == [kind |-> "coroutine"]
Raised(e) == [kind |-> "raise", exc |-> e]

\* s[:n] of a built string
Cut(str, n) == Str(str.txt, Min(str.len, n))

\* (transcript or "").strip() cut to n characters: the whole words that fit
\* (the texts of the model carry no outer blanks).
RECURSIVE Prefix(_, _)
Prefix(t, n) ==
  IF StrLen(t) <= n THEN t ELSE Prefix(SubSeq(t, 1, Len(t) - 1), n)

(***************************************************************************)
(* AIBackend._parse_fallback (app/ai/backends/base.py)                     *)
(***************************************************************************)

\* r"I'm ([A-Z][a-z]+ [A-Z][a-z]+)", case-sensitive; the patterns
\* "My name is" and "This is" need words no text of the model holds.
BaseNameMatch(t) ==
  LET I == {i \in 1..(Len(t) - 2) :
              t[i] = "im" /\ t[i + 1] \in CapWords /\ t[i + 2] \in CapWords}
  IN  IF t = <<>> \/ I = {} THEN NoName
      ELSE SubSeq(t, SetMin(I) + 1, SetMin(I) + 2)

BaseKeywords ==
  << {"python", "programming", "code", "software", "java", "web", "api"},
     {"management", "leadership", "marketing", "sales", "business"},
     {"teaching", "learning", "course", "lesson", "training"},
     {"health", "medical", "fitness", "wellness"},
     {"research", "science", "biology", "chemistry", "physics"} >>
BaseCategories == <<"Technology", "Business", "Education", "Health", "Science">>

\* The first category, in dict order, one of whose keywords is in
\* f"{transcript} {filename}".lower().
BaseCategory(t, f) ==
  LET K == {k \in DOMAIN BaseKeywords : \E w \in BaseKeywords[k] : Occurs(w, t \o <<f>>)}
  IN  IF K = {} THEN "Unknown" ELSE BaseCategories[SetMin(K)]

ParseFallback(t, f) ==
  LET name == BaseNameMatch(t)
      c0 == IF name # NoName THEN 70 ELSE 30
      cat == BaseCategory(t, f)
  IN  [instructor_name |-> name,
       training_content |-> Str(<<"Training content from", f>>, 22 + FileLen(f)),
       category |-> cat,
       confidence_score |-> IF cat # "Unknown" THEN Min(80, c0 + 20) ELSE c0]

(***************************************************************************)
(* LlamaCppBackend (app/ai/backends/llama_cpp_backend.py)                  *)
(***************************************************************************)

\* topic_keywords ("API" is upper-case and never found in lowered text).
LlamaTopicKeywords ==
  {"learn", "understand", "explain", "discuss", "cover", "topic", "subject",
   "introduction", "overview", "concept", "method", "technique", "process",
   "algorithm", "function", "class", "module", "framework", "library",
   "database", "security", "testing", "deployment", "development"}

\* The three-word phrases words[i:i+3] at a keyword with i < len(words) - 2,
\* the first ten, as a set.  The texts hold no [.!?]: one sentence.
TopicPhrases(t) ==
  LET P == {i \in 1..(Len(t) - 2) : Lower(t[i]) \in LlamaTopicKeywords}
      first10 == {i \in P : Cardinality({k \in P : k < i}) < 10}
  IN  {SubSeq(t, i, i + 2) : i \in first10}

RECURSIVE PhrasesLen(_)
PhrasesLen(S) ==
  IF S = {} THEN 0
  ELSE LET x == CHOOSE y \in S : TRUE
       IN  StrLen(x) + (IF S = {x} THEN 0 ELSE 2) + PhrasesLen(S \ {x})

ExtractTopicsFromTranscript(t) ==
  IF t = <<>> THEN Str(<<"No content available for analysis">>, 33)
  ELSE IF TopicPhrases(t) # {}
       THEN Str(<<"Topics identified:">>, 19 + PhrasesLen(TopicPhrases(t)))
       ELSE Str(<<"General training content - specific topics could not be automatically extracted">>, 79)

\* instructor_patterns[0] under re.IGNORECASE, accepted when it has two
\* words and fewer than 50 characters.  The other three patterns need
\* "Welcome", "taught by|instructor|teacher|presenter" or "will be|am"
\* before "teaching|presenting|leading": no transcript handed to a
\* backend holds them (the backends get Transcripts, over Vocab).
LlamaNameMatch(t) ==
  LET name == IntroCapture(t)
  IN  IF name # <<>> /\ Len(name) >= 2 /\ StrLen(name) < 50 THEN name ELSE NoName

LlamaKeywords ==
  << {"python", "javascript", "programming", "code", "software", "development",
      "api", "database"},
     {"management", "leadership", "sales", "marketing", "finance", "strategy",
      "business"},
     {"teaching", "learning", "education", "academic", "curriculum", "student"} >>
LlamaCategories == <<"Technology", "Business", "Behaviour">>

LlamaCategory(t, f) ==
  LET K == {k \in DOMAIN LlamaKeywords :
              \E w \in LlamaKeywords[k] : Occurs(w, <<f>>) \/ Occurs(w, t)}
  IN  IF K = {} THEN "Unknown" ELSE LlamaCategories[SetMin(K)]

EnhancedFallbackAnalysis(t, f) ==
  LET name == LlamaNameMatch(t)
  IN  [instructor_name |-> name,
       training_content |-> ExtractTopicsFromTranscript(t),
       category |-> LlamaCategory(t, f),
       confidence_score |-> IF name # NoName THEN 70 ELSE 50,
       extraction_method |-> <<"pattern-fallback">>]

\* The fields of the parsed answer, coerced (lines 91-96).  float() of
\* null raises: the answer is then handled as a failure.
CoerceName(v) == IF v.j = "str" /\ v.s # <<>> THEN v.s ELSE NoName
CoerceContent(v) ==
  CASE v.j = "missing" -> Str(<<>>, 0)
    [] v.j = "null" -> Str(<<"None">>, 4)
    [] v.j = "num" -> Str(<<"number">>, 1)
    [] OTHER -> Cut(Str(v.s, v.len), 2000)
CoerceCategory(v) ==
  CASE v.j = "missing" -> "Unknown"
    [] v.j = "null" -> "None"
    [] v.j = "num" -> "number"
    [] OTHER -> v.s[1]
FloatRaises(v) == v.j \in {"null", "str"}
CoerceConfidence(v) == IF v.j = "missing" THEN 30 ELSE v.n

\* Variant: only a failure of the inference call itself is caught.
LlamaAnalyzeParseUncaught(avail, reply, transcript, f) ==
  IF ~avail THEN Raised("Llama-cpp backend not available")
  ELSE IF reply.kind = "raise"
       THEN Returned(EnhancedFallbackAnalysis(Prefix(transcript, 6000), f))
  ELSE IF reply.kind # "object" \/ FloatRaises(reply.data.confidence_score)
       THEN Raised("JSONDecodeError")
  ELSE Returned(
         [instructor_name |-> CoerceName(reply.data.instructor_name),
          training_content |-> CoerceContent(reply.data.training_content),
          category |-> CoerceCategory(reply.data.category),
          confidence_score |-> CoerceConfidence(reply.data.confidence_score)])

\* analyze_content: the model's reply is an exception, text that is no
\* JSON, JSON that is no object, or an object.
LlamaAnalyze(avail, reply, transcript, f) ==
  IF ~avail THEN Raised("Llama-cpp backend not available")
  ELSE LET t == Prefix(transcript, 6000)
       IN  IF reply.kind # "object" \/ FloatRaises(reply.data.confidence_score)
           THEN Returned(EnhancedFallbackAnalysis(t, f))
           ELSE Returned(
                  [instructor_name |-> CoerceName(reply.data.instructor_name),
                   training_content |-> CoerceContent(reply.data.training_content),
                   category |-> CoerceCategory(reply.data.category),
                   confidence_score |-> CoerceConfidence(reply.data.confidence_score)])

(***************************************************************************)
(* OllamaBackend (app/ai/backends/ollama_backend.py) and PatternBackend    *)
(* (app/ai/backends/pattern_backend.py)                                    *)
(***************************************************************************)

\* t[:1000] + "..." of a transcript longer than 1000 characters.
OllamaExcerpt(t) == IF StrLen(t) > 1000 THEN Prefix(t, 1000) \o <<"...">> ELSE t

\* Variant: the request is awaited and resp is the service's response.
OllamaResponseAwaited(http) == http

\* resp = asyncio.to_thread(requests.post, ...): the call is not awaited,
\* resp is the coroutine object and the service's answer is never read.
OllamaResponse(http) == Coroutine

\* analyze_content: resp.status_code of a coroutine object raises
\* AttributeError inside the try; so does a timeout of the request.
OllamaAnalyze(avail, http, transcript, f) ==
  IF ~avail THEN Raised("Ollama backend not available")
  ELSE LET t == OllamaExcerpt(transcript)
           resp == OllamaResponse(http)
       IN  IF resp.kind \in {"coroutine", "timeout"} THEN Returned(ParseFallback(t, f))
           ELSE IF resp.status = 200 /\ resp.body # <<>> THEN Returned(resp.body[1])
           ELSE Returned(ParseFallback(t, f))

\* async def analyze_content: the call returns a coroutine object and the
\* body does not run.
PatternAnalyze(transcript, f) == Coroutine

(***************************************************************************)
(* AIBackendManager (app/ai/manager.py)                                    *)
(***************************************************************************)

Backends == <<"llama-cpp", "ollama", "pattern-matching">>
BackendNames == Range(Backends)

\* Variant: the last available backend of the list is taken.
SelectBackendLast(avail) ==
  LET K == {k \in DOMAIN Backends : avail[Backends[k]]}
  IN  IF K = {} THEN "none" ELSE Backends[CHOOSE k \in K : \A j \in K : j <= k]

\* _select_backend: the first backend of the list that is available.
SelectBackend(avail) ==
  LET K == {k \in DOMAIN Backends : avail[Backends[k]]}
  IN  IF K = {} THEN "none" ELSE Backends[SetMin(K)]

NoResult == [none |-> TRUE]
EmptyStr == Str(<<>>, 0)

\* Variant: only short content triggers the enhancer.
WeakShortOnly(r) == Get(r, "training_content", EmptyStr).len < 30

\* The condition of lines 36-38.
Weak(r) ==
  \/ Get(r, "instructor_name", NoName) = NoName
  \/ Get(r, "confidence_score", 0) < 30
  \/ Get(r, "training_content", EmptyStr).len < 30

\* Variant: the item assignment on the answer is outside the try block.
AfterPrimaryUncaught(out, name) ==
  IF out.kind = "raise" THEN [pc |-> "Fallback", result |-> NoResult]
  ELSE IF out.kind = "coroutine" THEN [pc |-> "Escaped", result |-> NoResult]
  ELSE LET r == SetItem(out.d, "extraction_method", <<name>>)
       IN  [pc |-> IF Weak(r) THEN "Enhancing" ELSE "Terminal", result |-> r]

\* Variant: a failed call is tried again.
AfterPrimaryRetry(out, name) ==
  IF out.kind \in {"raise", "coroutine"} THEN [pc |-> "Primary", result |-> NoResult]
  ELSE LET r == SetItem(out.d, "extraction_method", <<name>>)
       IN  [pc |-> IF Weak(r) THEN "Enhancing" ELSE "Terminal", result |-> r]

\* Variant: a failed call is answered in the name of the last backend.
AfterPrimaryChain(out, name) ==
  IF out.kind \in {"raise", "coroutine"}
  THEN [pc |-> "Terminal",
        result |-> [instructor_name |-> NoName,
                    training_content |-> EmptyStr,
                    category |-> "Unknown",
                    confidence_score |-> 30,
                    extraction_method |-> <<"pattern-matching", " (fallback)">>]]
  ELSE LET r == SetItem(out.d, "extraction_method", <<name>>)
       IN  [pc |-> IF Weak(r) THEN "Enhancing" ELSE "Terminal", result |-> r]

\* Lines 32-45: the answer of the active backend is tagged and gated;
\* an exception of the call, or of the item assignment on a coroutine
\* object, is caught by `except Exception`.
AfterPrimary(out, name) ==
  IF out.kind = "raise" THEN [pc |-> "Fallback", result |-> NoResult]
  ELSE IF out.kind = "coroutine" THEN [pc |-> "Fallback", result |-> NoResult]
  ELSE LET r == SetItem(out.d, "extraction_method", <<name>>)
       IN  [pc |-> IF Weak(r) THEN "Enhancing" ELSE "Terminal", result |-> r]

\* min(1.0, ai_result.get("confidence_score", 0) + inc)
Boost(r, inc) == Min(100, Get(r, "confidence_score", 0) + inc)

EnhanceName(t, r) ==
  IF Get(r, "instructor_name", NoName) = NoName /\ ExtractInstructorName(t) # NoName
  THEN SetItem(SetItem(r, "instructor_name", ExtractInstructorName(t)),
               "confidence_score", Boost(r, 20))
  ELSE r

\* Variant: brief content is replaced whatever the length of the candidate.
EnhanceContentAnyLength(t, r) ==
  IF Get(r, "training_content", EmptyStr).len < 100
  THEN SetItem(SetItem(r, "training_content", ExtractComprehensiveTopics(t)),
               "confidence_score", Boost(r, 10))
  ELSE r

EnhanceContent(t, r) ==
  IF /\ Get(r, "training_content", EmptyStr).len < 100
     /\ ExtractComprehensiveTopics(t).len > Get(r, "training_content", EmptyStr).len
  THEN SetItem(SetItem(r, "training_content", ExtractComprehensiveTopics(t)),
               "confidence_score", Boost(r, 10))
  ELSE r

EnhanceCategory(t, f, r) ==
  IF Get(r, "category", "") = "Unknown" /\ DetectCategory(t, f) # "Unknown"
  THEN SetItem(r, "category", DetectCategory(t, f))
  ELSE r

\* Variant: the tag is appended only when a field was replaced.
EnhanceWithContentAnalyzerTagIfChanged(t, f, ai) ==
  LET r == EnhanceCategory(t, f, EnhanceContent(t, EnhanceName(t, ai)))
  IN  IF r = ai THEN r
      ELSE SetItem(r, "extraction_method",
                   Append(Get(r, "extraction_method", <<"unknown">>), "-enhanced"))

EnhanceWithContentAnalyzer(t, f, ai) ==
  LET r == EnhanceCategory(t, f, EnhanceContent(t, EnhanceName(t, ai)))
  IN  SetItem(r, "extraction_method",
              Append(Get(r, "extraction_method", <<"unknown">>), "-enhanced"))

\* Variant: the fallback result carries the tag of a final fallback.
FallbackAnalysisFinalTag(t, f) ==
  [instructor_name |-> ExtractInstructorName(t),
   training_content |-> ExtractComprehensiveTopics(t),
   category |-> DetectCategory(t, f),
   confidence_score |-> 30,
   extraction_method |-> <<"pattern-matching (final fallback)">>]

\* Variant: any non-empty content counts as extracted topics.
FallbackAnalysisAnyContent(t, f) ==
  LET name == ExtractInstructorName(t)
      content == ExtractComprehensiveTopics(t)
  IN  [instructor_name |-> name,
       training_content |-> content,
       category |-> DetectCategory(t, f),
       confidence_score |-> CalculateConfidence(name # NoName, content.len > 0, StrLen(t)),
       extraction_method |-> <<"content-analyzer-fallback">>]

FallbackAnalysis(t, f) ==
  LET name == ExtractInstructorName(t)
      content == ExtractComprehensiveTopics(t)
  IN  [instructor_name |-> name,
       training_content |-> content,
       category |-> DetectCategory(t, f),
       confidence_score |->
         CalculateConfidence(name # NoName, content.len > 0 /\ content.len > 50, StrLen(t)),
       extraction_method |-> <<"content-analyzer-fallback">>]

(***************************************************************************)
(* The environment: what the local model and the remote service answer.    *)
(***************************************************************************)

LlmNameValues == {JNull, JStr(<<>>, 0), JStr(<<"Jane", "Jane">>, 9)}
LlmContentValues == {Missing, JStr(<<"answer">>, 40), JStr(<<"long answer">>, 2500)}
LlmCategoryValues == {Missing, JStr(<<"Technology">>, 10), JStr(<<"Finance">>, 7)}
LlmConfidenceValues == {Missing, JNull, JNum(-50), JNum(20), JNum(90), JNum(150)}

\* create_chat_completion raises, answers text that is no JSON, JSON that
\* is no object, or an object.
LlamaReplies ==
  {[kind |-> "raise"], [kind |-> "text"], [kind |-> "json"]}
    \cup {[kind |-> "object", data |-> d] :
            d \in [instructor_name : LlmNameValues,
                   training_content : LlmContentValues,
                   category : LlmCategoryValues,
                   confidence_score : LlmConfidenceValues]}

\* The objects a response text of the remote service may hold.
OllamaObjects ==
  {[instructor_name |-> <<"Jane", "Jane">>,
    training_content |-> Str(<<"answer">>, 40),
    category |-> "Technology",
    confidence_score |-> 90],
   [instructor_name |-> <<"Jane", "Jane">>]}

HttpReplies ==
  {[kind |-> "timeout"],
   [kind |-> "response", status |-> 500, body |-> <<>>],
   [kind |-> "response", status |-> 200, body |-> <<>>]}
    \cup {[kind |-> "response", status |-> 200, body |-> <<o>>] : o \in OllamaObjects}

NoReply == [kind |-> "none"]

Replies(name) ==
  CASE name = "llama-cpp" -> LlamaReplies
    [] name = "ollama" -> HttpReplies
    [] OTHER -> {NoReply}

(***************************************************************************)
(* The state machine: one manager, built once, serving calls of            *)
(* analyze_content one after the other.                                    *)
(***************************************************************************)

VARIABLES
  available,   \* backend name -> its available flag
  active,      \* active_backend.name
  pc,          \* "Idle", or where the current call is
  transcript,  \* the arguments of the current call
  filename,
  reply,       \* what the model or the service answered in this call
  answer,      \* what the backend call gave: "dict", "coroutine", "raise"
  pre,         \* the result handed to the enhancer
  result,      \* the result dict of the call
  hist,        \* the places the current call has been in
  invoked,     \* backend name -> analyze_content invocations in this call
  built,       \* backend name -> backends of that kind constructed by this call
  op,          \* a function of the services called on its own, with its arguments
  ret,         \* <<>>, or <<v>> when that function has returned v
  calls,       \* caller -> the analyze_content call it has in progress
  heap,        \* object id -> the result dict that lives there
  job,         \* the committed ProcessingJob row of an upload
  videos,      \* path index -> committed processing_status of its VideoRecord
  worker,      \* the background task of the job: its position and locals
  polled       \* the last JobStatus answered by GET /job/{job_id}

managerVars == <<available, active, pc, transcript, filename, reply, answer, pre,
                 result, hist, invoked, built, op, ret, calls, heap>>

jobVars == <<job, videos, worker, polled>>

vars == <<available, active, pc, transcript, filename, reply, answer, pre, result,
          hist, invoked, built, op, ret, calls, heap, job, videos, worker, polled>>

\* No file has been uploaded.
NoJob == [status |-> "none"]
NoWorker == [pc |-> "none"]
NoPoll == [status |-> "none"]

NoUpload ==
  /\ job = NoJob
  /\ videos = <<>>
  /\ worker = NoWorker
  /\ polled = NoPoll

NoInvocation == [b \in BackendNames |-> 0]
NoOp == [fn |-> "none"]

\* AIBackendManager(): LlamaCppBackend() is available when the library and
\* the model loaded, OllamaBackend() when the probe answered 200,
\* PatternBackend() always.
Init ==
  /\ available \in {a \in [BackendNames -> BOOLEAN] : a["pattern-matching"]}
  /\ active = SelectBackend(available)
  /\ pc = "Idle"
  /\ transcript = <<>>
  /\ filename = "a"
  /\ reply = NoReply
  /\ answer = "none"
  /\ pre = NoResult
  /\ result = NoResult
  /\ hist = <<>>
  /\ invoked = NoInvocation
  /\ built = NoInvocation
  /\ op = NoOp
  /\ ret = <<>>
  /\ calls = <<>>
  /\ heap = <<>>
  /\ NoUpload

\* A caller enters analyze_content(t, f).
Call(t, f) ==
  /\ pc = "Idle"
  /\ pc' = "Primary"
  /\ transcript' = t
  /\ filename' = f
  /\ hist' = <<"Primary">>
  /\ UNCHANGED <<jobVars, calls, heap, op, ret, available, active, reply, answer, pre, result, invoked, built>>

\* The backends that analyze_content of backend `name` constructs while
\* it runs: OllamaBackend ends every path of its try block, and its except
\* branch, with LlamaCppBackend()._parse_fallback(...), and
\* LlamaCppBackend() loads the model when the library and the model file
\* are there.  The body of PatternBackend's coroutine, which would do the
\* same, is never run by the manager.
BackendsBuilt(name, avail) ==
  IF name = "ollama" /\ avail THEN <<"llama-cpp">> ELSE <<>>

\* self.active_backend.analyze_content(transcript, filename)
BackendCall(name, r, t, f) ==
  CASE name = "llama-cpp" -> LlamaAnalyze(available[name], r, t, f)
    [] name = "ollama" -> OllamaAnalyze(available[name], r, t, f)
    [] OTHER -> PatternAnalyze(t, f)

\* Lines 30-45: the active backend answers.
Primary ==
  /\ pc = "Primary"
  /\ \E r \in Replies(active) :
       LET out == BackendCall(active, r, transcript, filename)
           next == AfterPrimary(out, active)
       IN  /\ reply' = r
           /\ answer' = out.kind
           /\ pc' = next.pc
           /\ result' = next.result
           /\ hist' = Append(hist, next.pc)
  /\ invoked' = [invoked EXCEPT ![active] = @ + 1]
  /\ built' = [b \in BackendNames |->
                 LET made == BackendsBuilt(active, available[active])
                 IN  built[b] + Cardinality({i \in DOMAIN made : made[i] = b})]
  /\ UNCHANGED <<jobVars, calls, heap, op, ret, available, active, transcript, filename, pre>>

\* Lines 40-41: return self._enhance_with_content_analyzer(...)
Enhance ==
  /\ pc = "Enhancing"
  /\ pre' = result
  /\ result' = EnhanceWithContentAnalyzer(transcript, filename, result)
  /\ pc' = "Terminal"
  /\ hist' = Append(hist, "Terminal")
  /\ UNCHANGED <<jobVars, calls, heap, op, ret, available, active, transcript, filename, reply, answer, invoked,
                 built>>

\* Variant: a manager that marks the backend whose call failed as
\* unavailable before it falls back.
FallbackMarksUnavailable ==
  /\ pc = "Fallback"
  /\ result' = FallbackAnalysis(transcript, filename)
  /\ pc' = "Terminal"
  /\ hist' = Append(hist, "Terminal")
  /\ available' = [available EXCEPT ![active] = FALSE]
  /\ UNCHANGED <<jobVars, calls, heap, op, ret, active, transcript, filename, reply, answer, pre,
                 invoked, built>>

\* Line 48: return self._fallback_analysis(transcript, filename)
Fallback ==
  /\ pc = "Fallback"
  /\ result' = FallbackAnalysis(transcript, filename)
  /\ pc' = "Terminal"
  /\ hist' = Append(hist, "Terminal")
  /\ UNCHANGED <<jobVars, calls, heap, op, ret, available, active, transcript, filename, reply, answer, pre,
                 invoked, built>>

\* The caller has the result; the manager is ready for the next call.
Return ==
  /\ pc = "Terminal"
  /\ pc' = "Idle"
  /\ transcript' = <<>>
  /\ filename' = "a"
  /\ reply' = NoReply
  /\ answer' = "none"
  /\ pre' = NoResult
  /\ result' = NoResult
  /\ hist' = <<>>
  /\ invoked' = NoInvocation
  /\ built' = NoInvocation
  /\ UNCHANGED <<jobVars, calls, heap, op, ret, available, active>>

Next ==
  \/ \E t \in Transcripts, f \in Filenames : Call(t, f)
  \/ Primary
  \/ Enhance
  \/ Fallback
  \/ Return

Spec == Init /\ [][Next]_vars

\* An exception that leaves the active backend's call.  The backends above
\* raise only when called while unavailable, which the manager never does;
\* this is the failure `except Exception` (line 44) is written for, coming
\* from outside the backend's own code.
BackendRaises ==
  /\ pc = "Primary"
  /\ LET next == AfterPrimary(Raised("fault"), active)
     IN  /\ pc' = next.pc
         /\ result' = next.result
         /\ hist' = Append(hist, next.pc)
  /\ reply' = [kind |-> "fault"]
  /\ answer' = "raise"
  /\ invoked' = [invoked EXCEPT ![active] = @ + 1]
  /\ UNCHANGED <<jobVars, calls, heap, op, ret, available, active, transcript, filename, pre, built>>

\* The manager with backends whose call may raise.
SpecFault == Init /\ [][Next \/ BackendRaises]_vars

(***************************************************************************)
(* choose_instructor (app/services/slide_processor.py).  Confidences are   *)
(* in thousandths; a name is its words.                                    *)
(***************************************************************************)

\* str(name).lower()
NameLower(n) ==
  [i \in DOMAIN n |->
     CASE n[i] = "John" -> "john"
       [] n[i] = "Smith" -> "smith"
       [] n[i] = "Alice" -> "alice"
       [] n[i] = "Bob" -> "bob"
       [] OTHER -> n[i]]

\* _missing(n): None, or "", "not provided", "unknown", "n/a" in any case.
IsMissing(n) ==
  n = NoName \/ NameLower(n) \in {<<"not", "provided">>, <<"unknown">>, <<"n/a">>}

\* round(x, 3) of a value given in ten-thousandths, in thousandths.
Round3(x) == (x + 5) \div 10

\* Variant: the boosted confidence is not capped.
AgreedConfidenceUncapped(a, s) == Round3(((a + s) * 10) \div 2 + 1500)

\* round(min(0.99, (a + s) / 2 + 0.15), 3)
AgreedConfidence(a, s) == Round3(Min(9900, ((a + s) * 10) \div 2 + 1500))

NoGuess == [none |-> TRUE]

ChooseInstructor(audio_guess, slide_guess) ==
  LET a == IF audio_guess = NoGuess
           THEN [name |-> NoName, confidence |-> 0, source |-> "audio"]
           ELSE audio_guess
      s == IF slide_guess = NoGuess
           THEN [name |-> NoName, confidence |-> 0, source |-> "slides"]
           ELSE slide_guess
  IN  IF ~IsMissing(a.name) /\ ~IsMissing(s.name)
      THEN IF NameLower(a.name) = NameLower(s.name)
           THEN [name |-> a.name,
                 confidence |-> AgreedConfidence(a.confidence, s.confidence),
                 source |-> "audio+slides"]
           ELSE IF s.confidence >= a.confidence + 200 THEN s
           ELSE IF a.confidence >= s.confidence THEN a ELSE s
      ELSE IF ~IsMissing(a.name) /\ a.confidence >= 550
      THEN IF ~IsMissing(s.name) /\ s.confidence >= a.confidence + 200 THEN s ELSE a
      ELSE IF ~IsMissing(s.name) /\ s.confidence >= 550 THEN s
      ELSE IF a.confidence >= s.confidence THEN a ELSE s

GuessNames ==
  {NoName, <<"unknown">>, <<"John", "Smith">>, <<"john", "smith">>, <<"Alice">>, <<"Bob">>}

GuessConfidences == {0, 400, 500, 540, 550, 600, 650, 900, 1000}

Guesses(source) ==
  {NoGuess} \cup {[name |-> n, confidence |-> c, source |-> source] :
                    n \in GuessNames, c \in GuessConfidences}

(***************************************************************************)
(* The functions of the services, each called on its own.                  *)
(***************************************************************************)

\* The longest transcript_length handed to calculate_confidence.
MaxLength == 1100

ConfidenceCalls ==
  {[fn |-> "calculate_confidence", instructor_found |-> a, topics_extracted |-> b,
    transcript_length |-> n] : a \in BOOLEAN, b \in BOOLEAN, n \in 0..MaxLength}

\* _select_backend over every combination of available flags the three
\* backends of self.backends could carry.
SelectCalls ==
  {[fn |-> "_select_backend", available |-> a] : a \in [BackendNames -> BOOLEAN]}

\* LlamaCppBackend.analyze_content with every answer of the local model.
LlamaCalls ==
  {[fn |-> "llama_analyze_content", available |-> a, reply |-> r, transcript |-> t,
    filename |-> f] :
     a \in BOOLEAN, r \in LlamaReplies, t \in Transcripts, f \in Filenames}

\* OllamaBackend.analyze_content with every answer of the remote service.
OllamaCalls ==
  {[fn |-> "ollama_analyze_content", available |-> a, http |-> h, transcript |-> t,
    filename |-> f] :
     a \in BOOLEAN, h \in HttpReplies, t \in Transcripts, f \in Filenames}

\* The longest transcript handed to a heuristic called on its own: an
\* introduction of three words and a word after it.
MaxHeuristicWords == 4

\* The words of those transcripts: "instructor" opens instructor_patterns[2].
HeuristicVocab == Vocab \cup {"instructor"}

HeuristicTranscripts == UNION {[1..n -> HeuristicVocab] : n \in 0..MaxHeuristicWords}

\* The heuristics of the content analyzer and the manager's analysis
\* built from them.
HeuristicCalls ==
  {[fn |-> "extract_instructor_name", transcript |-> t] : t \in HeuristicTranscripts}
    \cup {[fn |-> "_fallback_analysis", transcript |-> t, filename |-> f] :
            t \in HeuristicTranscripts, f \in Filenames}

MaxCategoryWords == 3

\* Words of three topic_patterns categories and one of none.
CategoryVocab == {"Jane", "python", "sales", "teaching"}

CategoryTranscripts == UNION {[1..n -> CategoryVocab] : n \in 0..MaxCategoryWords}

CategoryCalls ==
  {[fn |-> "detect_category", transcript |-> t, filename |-> f] :
     t \in CategoryTranscripts, f \in Filenames}

ChooseCalls ==
  {[fn |-> "choose_instructor", audio_guess |-> a, slide_guess |-> s] :
     a \in Guesses("audio"), s \in Guesses("slides")}

\* No analyze_content call is in progress; one function is about to be
\* called with its arguments.
ServicesInit ==
  /\ available = [b \in BackendNames |-> b = "pattern-matching"]
  /\ active = SelectBackend(available)
  /\ pc = "Idle"
  /\ transcript = <<>>
  /\ filename = "a"
  /\ reply = NoReply
  /\ answer = "none"
  /\ pre = NoResult
  /\ result = NoResult
  /\ hist = <<>>
  /\ invoked = NoInvocation
  /\ built = NoInvocation
  /\ \/ op \in ConfidenceCalls
     \/ op \in SelectCalls
     \/ op \in LlamaCalls
     \/ op \in OllamaCalls
     \/ op \in HeuristicCalls
     \/ op \in CategoryCalls
     \/ op \in ChooseCalls
  /\ ret = <<>>
  /\ calls = <<>>
  /\ heap = <<>>
  /\ NoUpload

Returns(v) ==
  /\ ret = <<>>
  /\ ret' = <<v>>
  /\ UNCHANGED <<jobVars, available, active, pc, transcript, filename, reply, answer, pre,
                 result, hist, invoked, built, op, calls, heap>>

CalculateConfidenceCall ==
  /\ op.fn = "calculate_confidence"
  /\ Returns(CalculateConfidence(op.instructor_found, op.topics_extracted,
                                 op.transcript_length))

\* _select_backend sets active_backend and returns, or raises RuntimeError
\* when the loop found no available backend.
SelectBackendCall ==
  /\ op.fn = "_select_backend"
  /\ Returns(IF SelectBackend(op.available) = "none"
             THEN Raised("No AI backend available")
             ELSE [kind |-> "selected", name |-> SelectBackend(op.available)])

LlamaAnalyzeCall ==
  /\ op.fn = "llama_analyze_content"
  /\ Returns(LlamaAnalyze(op.available, op.reply, op.transcript, op.filename))

OllamaAnalyzeCall ==
  /\ op.fn = "ollama_analyze_content"
  /\ Returns(OllamaAnalyze(op.available, op.http, op.transcript, op.filename))

ExtractInstructorNameCall ==
  /\ op.fn = "extract_instructor_name"
  /\ Returns(ExtractInstructorName(op.transcript))

FallbackAnalysisCall ==
  /\ op.fn = "_fallback_analysis"
  /\ Returns(FallbackAnalysis(op.transcript, op.filename))

DetectCategoryCall ==
  /\ op.fn = "detect_category"
  /\ Returns(DetectCategory(op.transcript, op.filename))

ChooseInstructorCall ==
  /\ op.fn = "choose_instructor"
  /\ Returns(ChooseInstructor(op.audio_guess, op.slide_guess))

ServicesNext ==
  \/ CalculateConfidenceCall
  \/ ChooseInstructorCall
  \/ DetectCategoryCall
  \/ ExtractInstructorNameCall
  \/ FallbackAnalysisCall
  \/ LlamaAnalyzeCall
  \/ OllamaAnalyzeCall
  \/ SelectBackendCall

SpecServices == ServicesInit /\ [][ServicesNext]_vars

(***************************************************************************)
(* Two callers of the one shared manager (app/api/deps.py), their calls    *)
(* interleaved statement by statement.  A result dict is an object on the  *)
(* heap; the manager and the enhancer write it in place.                   *)
(***************************************************************************)

Callers == {1, 2}

ConcurrentTranscripts == {<<"testing">>, <<"im", "Jane", "Jane">>}
ConcurrentFilenames == {"a", "python"}

\* An answer that needs the enhancer, one that does not, and a failure.
ConcurrentReplies(name) ==
  CASE name = "llama-cpp" ->
         {[kind |-> "raise"],
          [kind |-> "object",
           data |-> [instructor_name |-> JNull, training_content |-> Missing,
                     category |-> Missing, confidence_score |-> Missing]],
          [kind |-> "object",
           data |-> [instructor_name |-> JStr(<<"Jane", "Jane">>, 9),
                     training_content |-> JStr(<<"answer">>, 40),
                     category |-> JStr(<<"Technology">>, 10),
                     confidence_score |-> JNum(90)]]}
    [] name = "ollama" ->
         {r \in HttpReplies : r.kind = "timeout" \/ r.body # <<>>}
    [] OTHER -> {NoReply}

IdleCall ==
  [pc |-> "Idle", transcript |-> <<>>, filename |-> "a", reply |-> NoReply,
   ref |-> 0, mixed |-> FALSE]

\* Variant: the result dicts of all calls are one object.
SharedDict(c) == 1

\* The dict a call gets from its backend, or from _fallback_analysis, is a
\* new object: a dict literal evaluated in that call.
NewDict(c) == c

\* ai_result["extraction_method"] = f"{...}-enhanced"
TagEnhanced(r) ==
  SetItem(r, "extraction_method",
          Append(Get(r, "extraction_method", <<"unknown">>), "-enhanced"))

\* The statements of the enhancer, in order, and where each leads.
EnhanceSteps == <<"EnhanceName", "EnhanceContent", "EnhanceCategory", "EnhanceTag">>

EnhanceStep(place, t, f, r) ==
  CASE place = "EnhanceName" -> EnhanceName(t, r)
    [] place = "EnhanceContent" -> EnhanceContent(t, r)
    [] place = "EnhanceCategory" -> EnhanceCategory(t, f, r)
    [] OTHER -> TagEnhanced(r)

AfterStep(place) ==
  CASE place = "EnhanceName" -> "EnhanceContent"
    [] place = "EnhanceContent" -> "EnhanceCategory"
    [] place = "EnhanceCategory" -> "EnhanceTag"
    [] OTHER -> "Terminal"

\* The other calls that are between their backend's answer and their
\* return see a step of caller c happen in their midst.
Mixing(c, cs) ==
  [d \in Callers |->
     IF d # c /\ cs[d].pc \notin {"Idle", "Primary"} /\ cs[c].pc # "Idle"
     THEN [cs[d] EXCEPT !.mixed = TRUE] ELSE cs[d]]

ConcurrentInit ==
  /\ available \in {a \in [BackendNames -> BOOLEAN] : a["pattern-matching"]}
  /\ active = SelectBackend(available)
  /\ pc = "Idle"
  /\ transcript = <<>>
  /\ filename = "a"
  /\ reply = NoReply
  /\ answer = "none"
  /\ pre = NoResult
  /\ result = NoResult
  /\ hist = <<>>
  /\ invoked = NoInvocation
  /\ built = NoInvocation
  /\ op = NoOp
  /\ ret = <<>>
  /\ calls = [c \in Callers |-> IdleCall]
  /\ heap = [i \in Callers |-> NoResult]
  /\ NoUpload

Step(cs, hp) ==
  /\ calls' = cs
  /\ heap' = hp
  /\ UNCHANGED <<jobVars, available, active, pc, transcript, filename, reply, answer, pre,
                 result, hist, invoked, built, op, ret>>

CallerCall(c, t, f) ==
  /\ calls[c].pc = "Idle"
  /\ Step([calls EXCEPT ![c] = [IdleCall EXCEPT !.pc = "Primary", !.transcript = t,
                                                !.filename = f]], heap)

\* Lines 32-43 in caller c.
CallerPrimary(c) ==
  /\ calls[c].pc = "Primary"
  /\ \E r \in ConcurrentReplies(active) :
       LET me == calls[c]
           out == BackendCall(active, r, me.transcript, me.filename)
           next == AfterPrimary(out, active)
           cs == Mixing(c, calls)
       IN  IF next.pc = "Fallback"
           THEN Step([cs EXCEPT ![c] = [me EXCEPT !.pc = "Fallback", !.reply = r]], heap)
           ELSE Step([cs EXCEPT ![c] =
                        [me EXCEPT !.pc = IF next.pc = "Enhancing" THEN EnhanceSteps[1]
                                          ELSE "Terminal",
                                   !.reply = r, !.ref = NewDict(c)]],
                     [heap EXCEPT ![NewDict(c)] = next.result])

\* One statement of _enhance_with_content_analyzer in caller c.
CallerEnhance(c) ==
  /\ calls[c].pc \in Range(EnhanceSteps)
  /\ LET me == calls[c]
     IN  Step([Mixing(c, calls) EXCEPT ![c] = [me EXCEPT !.pc = AfterStep(me.pc)]],
              [heap EXCEPT ![me.ref] =
                 EnhanceStep(me.pc, me.transcript, me.filename, heap[me.ref])])

\* Line 48 in caller c.
CallerFallback(c) ==
  /\ calls[c].pc = "Fallback"
  /\ LET me == calls[c]
     IN  Step([Mixing(c, calls) EXCEPT ![c] = [me EXCEPT !.pc = "Terminal",
                                                          !.ref = NewDict(c)]],
              [heap EXCEPT ![NewDict(c)] = FallbackAnalysis(me.transcript, me.filename)])

\* Caller c has its result and drops it.
CallerReturn(c) ==
  /\ calls[c].pc = "Terminal"
  /\ Step([calls EXCEPT ![c] = IdleCall], [heap EXCEPT ![calls[c].ref] = NoResult])

ConcurrentNext ==
  \E c \in Callers :
    \/ \E t \in ConcurrentTranscripts, f \in ConcurrentFilenames : CallerCall(c, t, f)
    \/ CallerPrimary(c)
    \/ CallerEnhance(c)
    \/ CallerFallback(c)
    \/ CallerReturn(c)

SpecConcurrent == ConcurrentInit /\ [][ConcurrentNext]_vars

\* analyze_content run from entry to return with nothing in between.
Alone(name, avail, t, f, r) ==
  LET next == AfterPrimary(BackendCall(name, r, t, f), name)
  IN  IF next.pc = "Fallback" THEN FallbackAnalysis(t, f)
      ELSE IF next.pc = "Enhancing" THEN EnhanceWithContentAnalyzer(t, f, next.result)
      ELSE next.result

(***************************************************************************)
(* The background job of an upload (app/api/routes/upload.py,              *)
(* app/services/workers.py, VideoProcessor.process_video,                  *)
(* app/api/routes/jobs.py).  job and videos are the committed rows: a step *)
(* of the worker ends with the db.commit() that makes its writes visible.  *)
(* Database calls succeed.                                                 *)
(***************************************************************************)

MaxFiles == 3

\* if file_size > 1000 * 1024 * 1024, in bytes.
SizeLimit == 1000 * 1024 * 1024

\* Sizes of uploaded files, on both sides of the limit.
FileSizes == {1, SizeLimit, SizeLimit + 1}

UploadLists == UNION {[1..n -> FileSizes] : n \in 1..MaxFiles}

\* process_videos_background is the task upload_videos adds;
\* process_videos_background_async is the worker for an awaiting caller.
WorkerKinds == {"sync", "async"}

\* Variant: workers.py imports os, and getsize gives the size.
WorkerGetSizeImported(size) == [kind |-> "int", v |-> size]

\* os.path.getsize(path) in process_videos_background: workers.py imports
\* datetime, List, Session, SessionLocal, ProcessingJob and VideoProcessor,
\* not os, so evaluating the name raises NameError.
WorkerGetSize(size) == Raised("NameError")

\* Variant: only the inner `except TimeoutError` guards a video.
CaughtTimeoutOnly(exc) == exc = "TimeoutError"

\* except Exception as e (workers.py:22 and :93): NameError, TypeError,
\* TimeoutError and Exception are all caught inside the loop.
Caught(exc) == exc \in {"NameError", "TypeError", "TimeoutError", "Exception"}

\* One pass of the loop body of process_videos_background, lines 53-95:
\* the size lookup raises; past it a file over the limit is counted as
\* failed and `continue` leaves the body; otherwise process_video(...) is
\* called without await, which makes a coroutine object and runs nothing.
SyncVideoOutcome(size) ==
  LET file_size == WorkerGetSize(size)
  IN  IF file_size.kind = "raise" THEN file_size
      ELSE IF file_size.v > SizeLimit THEN [kind |-> "continue"]
      ELSE [kind |-> "processed"]

\* await v where v is no awaitable raises TypeError.
Await(v) == IF v.kind = "coroutine" THEN [kind |-> "value"] ELSE Raised("TypeError")

\* The try block of process_video, lines 239-304: a file over the limit
\* raises; otherwise the block reaches
\* `await self.ai_manager.analyze_content(transcript, filename)`, and
\* analyze_content is a plain def that returns a dict.
ProcessVideoOutcome(size) ==
  IF size > SizeLimit THEN Raised("Exception")
  ELSE LET analysis == Await([kind |-> "dict"])
       IN  IF analysis.kind = "raise" THEN analysis ELSE [kind |-> "completed"]

\* round(((processed + failed) / total) * 100, 2), in hundredths of a percent.
Progress(j) ==
  IF j.total_files = 0 THEN 0
  ELSE (2 * 10000 * (j.processed_files + j.failed_files) + j.total_files)
         \div (2 * j.total_files)

JobInit ==
  /\ available = [b \in BackendNames |-> b = "pattern-matching"]
  /\ active = SelectBackend(available)
  /\ pc = "Idle"
  /\ transcript = <<>>
  /\ filename = "a"
  /\ reply = NoReply
  /\ answer = "none"
  /\ pre = NoResult
  /\ result = NoResult
  /\ hist = <<>>
  /\ invoked = NoInvocation
  /\ built = NoInvocation
  /\ op = NoOp
  /\ ret = <<>>
  /\ calls = <<>>
  /\ heap = <<>>
  /\ NoUpload

\* upload_videos, lines 44-58: the job row, one pending record per file,
\* and the background task.
Upload(sizes, kind) ==
  /\ job = NoJob
  /\ job' = [status |-> "pending", total_files |-> Len(sizes),
             processed_files |-> 0, failed_files |-> 0]
  /\ videos' = [i \in DOMAIN sizes |-> "pending"]
  /\ worker' = [kind |-> kind, pc |-> "queued", i |-> 1, processed |-> 0,
                failed |-> 0, sizes |-> sizes]
  /\ UNCHANGED <<polled, managerVars>>

\* Lines 46-51 (12-17): job.status = 'processing'; processed = failed = 0.
WorkerStart ==
  /\ worker.pc = "queued"
  /\ job' = [job EXCEPT !.status = "processing"]
  /\ worker' = [worker EXCEPT !.pc = "loop"]
  /\ UNCHANGED <<videos, polled, managerVars>>

\* The except branch of the worker's outer try, lines 106-110 (34-38).
JobFailed ==
  /\ job' = [job EXCEPT !.status = "failed"]
  /\ worker' = [worker EXCEPT !.pc = "done"]

\* Lines 97-100 (25-28): the counters are written to the job and committed.
CommitCounts(processed, failed) ==
  job' = [job EXCEPT !.processed_files = processed, !.failed_files = failed]

\* process_videos_background, one pass of the for loop, lines 52-100.
SyncVideo ==
  /\ worker.pc = "loop"
  /\ worker.kind = "sync"
  /\ worker.i <= Len(worker.sizes)
  /\ LET out == SyncVideoOutcome(worker.sizes[worker.i])
     IN  CASE out.kind = "continue" ->
                /\ worker' = [worker EXCEPT !.failed = @ + 1, !.i = @ + 1]
                /\ UNCHANGED job
           [] out.kind = "processed" ->
                /\ worker' = [worker EXCEPT !.processed = @ + 1, !.i = @ + 1]
                /\ CommitCounts(worker.processed + 1, worker.failed)
           [] out.kind = "raise" /\ Caught(out.exc) ->
                /\ worker' = [worker EXCEPT !.failed = @ + 1, !.i = @ + 1]
                /\ CommitCounts(worker.processed, worker.failed + 1)
           [] OTHER -> JobFailed
  /\ UNCHANGED <<videos, polled, managerVars>>

\* process_video, lines 227-234: the record is marked 'processing'.
AsyncVideoStart ==
  /\ worker.pc = "loop"
  /\ worker.kind = "async"
  /\ worker.i <= Len(worker.sizes)
  /\ videos' = [videos EXCEPT ![worker.i] = "processing"]
  /\ worker' = [worker EXCEPT !.pc = "video"]
  /\ UNCHANGED <<job, polled, managerVars>>

\* process_video, lines 239-313, and the worker's lines 20-24: the record
\* is marked 'completed', or 'failed' and the exception raised again.
AsyncVideoEnd ==
  /\ worker.pc = "video"
  /\ LET out == ProcessVideoOutcome(worker.sizes[worker.i])
     IN  /\ videos' = [videos EXCEPT ![worker.i] =
                         IF out.kind = "raise" THEN "failed" ELSE "completed"]
         /\ CASE out.kind = "completed" ->
                   /\ worker' = [worker EXCEPT !.processed = @ + 1, !.pc = "count"]
                   /\ UNCHANGED job
              [] out.kind = "raise" /\ Caught(out.exc) ->
                   /\ worker' = [worker EXCEPT !.failed = @ + 1, !.pc = "count"]
                   /\ UNCHANGED job
              [] OTHER -> JobFailed
  /\ UNCHANGED <<polled, managerVars>>

\* process_videos_background_async, lines 25-28.
AsyncCount ==
  /\ worker.pc = "count"
  /\ CommitCounts(worker.processed, worker.failed)
  /\ worker' = [worker EXCEPT !.pc = "loop", !.i = @ + 1]
  /\ UNCHANGED <<videos, polled, managerVars>>

\* Lines 102-105 (30-33): the loop is over, job.status = 'completed'.
WorkerFinish ==
  /\ worker.pc = "loop"
  /\ worker.i > Len(worker.sizes)
  /\ job' = [job EXCEPT !.status = "completed"]
  /\ worker' = [worker EXCEPT !.pc = "done"]
  /\ UNCHANGED <<videos, polled, managerVars>>

\* get_job_status: the committed job, its progress and completed records.
GetJobStatus ==
  /\ job # NoJob
  /\ polled' = [status |-> job.status,
                total_files |-> job.total_files,
                processed_files |-> job.processed_files,
                failed_files |-> job.failed_files,
                progress_percentage |-> Progress(job),
                results |-> Cardinality({i \in DOMAIN videos : videos[i] = "completed"})]
  /\ polled' # polled
  /\ UNCHANGED <<job, videos, worker, managerVars>>

WorkerNext ==
  \/ WorkerStart
  \/ SyncVideo
  \/ AsyncVideoStart
  \/ AsyncVideoEnd
  \/ AsyncCount
  \/ WorkerFinish

JobNext ==
  \/ \E sizes \in UploadLists, kind \in WorkerKinds : Upload(sizes, kind)
  \/ WorkerNext
  \/ GetJobStatus

SpecJob == JobInit /\ [][JobNext]_vars

\* A background task that has been added runs until it returns.
SpecJobLive == SpecJob /\ WF_vars(WorkerNext)

(***************************************************************************)
(* Properties                                                              *)
(***************************************************************************)

Fields ==
  {"instructor_name", "training_content", "category", "confidence_score",
   "extraction_method"}

InCall == pc \in {"Primary", "Enhancing", "Fallback"}
Failed == "Fallback" \in Range(hist)
Enhanced == "Enhancing" \in Range(hist)

\* The call has a next step: the active backend has an answer to give, the
\* enhancer has a result to work on, the fallback needs nothing.
Ready ==
  \/ pc = "Primary" /\ Replies(active) # {}
  \/ pc = "Enhancing" /\ result # NoResult
  \/ pc = "Fallback"

\* Every available backend but the active one.
Remaining == {b \in BackendNames : b # active /\ available[b]}

\* C1: analyze_content hands its caller a result and lets no exception
\* escape, whatever the backend does (answers, answers garbage, raises,
\* times out), also when only the pattern-matching backend is available.
C1_ManagerReturnsValue ==
  /\ pc # "Escaped"
  /\ InCall => Ready
  /\ pc = "Terminal" => result # NoResult /\ "extraction_method" \in DOMAIN result

C1_Witness ==
  /\ pc = "Terminal"
  /\ active = "pattern-matching"
  /\ Failed
  /\ "extraction_method" \in DOMAIN result

\* C2: every returned result has the five fields, whichever backend
\* produced it and whatever the model or the service answered.
C2_AllFields == pc = "Terminal" => Fields \subseteq DOMAIN result

C2_Witness ==
  /\ pc = "Terminal"
  /\ active = "ollama"
  /\ reply = [kind |-> "response", status |-> 200,
              body |-> <<[instructor_name |-> <<"Jane", "Jane">>]>>]
  /\ Fields \subseteq DOMAIN result

C5_LinearEscalation ==
  /\ \A b \in BackendNames : invoked[b] <= 1
  /\ \A i, j \in DOMAIN hist : hist[i] = hist[j] => i = j
  /\ Range(hist) \subseteq {"Primary", "Enhancing", "Fallback", "Terminal"}
  /\ pc # "Idle" => hist # <<>> /\ hist[Len(hist)] = pc /\ hist[1] = "Primary"
  /\ InCall => Ready

C5_Witness ==
  /\ pc = "Terminal"
  /\ hist = <<"Primary", "Enhancing", "Terminal">>
  /\ invoked[active] = 1

\* C6 as stated: when the active backend's call completes without raising,
\* the result's extraction_method is the backend's name, or that name
\* followed by "-enhanced"; also with the pattern-matching backend active.
C6_Original ==
  (pc = "Terminal" /\ answer # "raise")
    => result.extraction_method \in {<<active>>, <<active, "-enhanced">>}

\* C7: after the active backend has answered, the enhancer runs exactly
\* when the answer has no instructor name, or a confidence below 0.3, or
\* less than 30 characters of training content.
C7_QualityGate ==
  LET weak == \/ result.instructor_name = NoName
              \/ result.confidence_score < 30
              \/ result.training_content.len < 30
  IN  /\ (answer = "dict" /\ pc = "Enhancing") => weak
      /\ (answer = "dict" /\ pc = "Terminal" /\ ~Enhanced)
           => ~weak /\ result.extraction_method = <<active>>

C7_Witness ==
  /\ pc = "Enhancing"
  /\ answer = "dict"
  /\ result.instructor_name # NoName
  /\ result.confidence_score >= 30
  /\ result.training_content.len < 30

\* C8 as stated: the confidence_score of every returned result is within
\* [0.0, 1.0].
C8_Original ==
  pc = "Terminal" => result.confidence_score >= 0 /\ result.confidence_score <= 100

\* C9 as stated: the category of every returned result is one of
\* Technology, Business, Education, Health, Science, Unknown.
C9_Original == pc = "Terminal" => result.category \in Categories

\* C10 as stated: the enhancer never returns a lower confidence_score than
\* the result it was given.
C10_Original ==
  (pc = "Terminal" /\ Enhanced) => result.confidence_score >= pre.confidence_score

\* C11: the enhancer replaces instructor_name only when it was absent and
\* the heuristic found a name, training_content only when it was under 100
\* characters and the heuristic text is longer, category only when it was
\* "Unknown" and the heuristic category is not; otherwise the field keeps
\* the value the enhancer was given.
C11_OverwriteOnlyIfBetter ==
  (pc = "Terminal" /\ Enhanced) =>
    LET name == ExtractInstructorName(transcript)
        topics == ExtractComprehensiveTopics(transcript)
        cat == DetectCategory(transcript, filename)
    IN  /\ result.instructor_name =
             IF pre.instructor_name = NoName /\ name # NoName
             THEN name ELSE pre.instructor_name
        /\ result.training_content =
             IF pre.training_content.len < 100 /\ topics.len > pre.training_content.len
             THEN topics ELSE pre.training_content
        /\ result.category =
             IF pre.category = "Unknown" /\ cat # "Unknown"
             THEN cat ELSE pre.category

C11_Witness ==
  /\ pc = "Terminal"
  /\ Enhanced
  /\ pre.instructor_name = NoName
  /\ result.instructor_name = <<"Jane", "Jane">>
  /\ pre.training_content.len < 100
  /\ ExtractComprehensiveTopics(transcript).len <= pre.training_content.len
  /\ result.training_content = pre.training_content
  /\ pre.category = "Finance"
  /\ DetectCategory(transcript, filename) # "Unknown"
  /\ result.category = "Finance"

\* C12 as stated: calculate_confidence returns min(1.0, 0.3 + 0.3 if the
\* instructor was found + 0.3 if topics were extracted + bonus), the bonus
\* being 0.2 above 1000 characters, 0.1 above 500 up to 1000, 0 otherwise.
C12_Original ==
  (op.fn = "calculate_confidence" /\ ret # <<>>) =>
    LET bonus == IF op.transcript_length > 1000 THEN 20
                 ELSE IF op.transcript_length > 500 THEN 10
                 ELSE 0
    IN  ret[1] = Min(100, 30 + (IF op.instructor_found THEN 30 ELSE 0)
                             + (IF op.topics_extracted THEN 30 ELSE 0) + bonus)

\* C13 as stated: no step of an analyze_content call constructs a backend
\* (which loads a model or probes a service), and the available flags keep
\* the values they got when the manager was constructed.
C13_Original ==
  [][available' = available /\ \A b \in BackendNames : built'[b] = 0]_vars

\* C14: constructing the manager selects the first backend, in the order
\* llama-cpp, ollama, pattern-matching, whose available flag is true, and
\* fails with an error exactly when no backend is available.
C14_FirstAvailable ==
  /\ active \in BackendNames /\ available[active]
  /\ (op.fn = "_select_backend" /\ ret # <<>>) =>
       LET a == op.available
           K == {k \in DOMAIN Backends : a[Backends[k]]}
       IN  /\ ret[1].kind = "raise" <=> K = {}
           /\ ret[1].kind # "raise" =>
                \E k \in K : /\ ret[1].name = Backends[k]
                             /\ \A j \in 1..(k - 1) : ~a[Backends[j]]

C14_Witness ==
  /\ op.fn = "_select_backend"
  /\ ~op.available["llama-cpp"] /\ op.available["ollama"] /\ op.available["pattern-matching"]
  /\ ret = <<[kind |-> "selected", name |-> "ollama"]>>

\* C15: under every interleaving of two analyze_content calls on the
\* shared manager, the result a call holds is the result the same call
\* (same transcript, filename and backend response) produces when run alone.
C15_CallsDoNotInterfere ==
  calls # <<>> =>
    \A c \in Callers :
      calls[c].pc = "Terminal" =>
        heap[calls[c].ref] =
          Alone(active, available, calls[c].transcript, calls[c].filename, calls[c].reply)

C15_Witness ==
  /\ calls # <<>>
  /\ calls[1].pc = "Terminal" /\ calls[1].mixed
  /\ calls[2].pc = "Terminal" /\ calls[2].mixed
  /\ calls[1].transcript # calls[2].transcript
  /\ heap[calls[1].ref] # heap[calls[2].ref]
  /\ heap[calls[1].ref].extraction_method = <<"llama-cpp", "-enhanced">>
  /\ heap[calls[2].ref].extraction_method = <<"llama-cpp", "-enhanced">>

\* C16: when inference raises, or the model's answer is no JSON or no JSON
\* object, analyze_content of an available llama-cpp backend does not raise
\* and returns the result of its heuristic fallback.
C16_ParseFailureFallsBack ==
  (/\ op.fn = "llama_analyze_content"
   /\ ret # <<>>
   /\ op.available
   /\ op.reply.kind \in {"raise", "text", "json"})
    => /\ ret[1].kind = "dict"
       /\ ret[1].d = EnhancedFallbackAnalysis(Prefix(op.transcript, 6000), op.filename)
       /\ Fields \subseteq DOMAIN ret[1].d
       /\ ret[1].d.extraction_method = <<"pattern-fallback">>

C16_Witness ==
  /\ op.fn = "llama_analyze_content"
  /\ op.available
  /\ op.reply.kind = "text"
  /\ ret # <<>>
  /\ ret[1].kind = "dict"
  /\ ret[1].d.instructor_name = <<"Jane", "Jane">>
  /\ ret[1].d.confidence_score = 70

\* C17: for an empty transcript and a filename that holds no category
\* keyword, _fallback_analysis returns no instructor name, category
\* "Unknown" and confidence 0.3; extract_instructor_name of an empty
\* transcript returns None.
C17_EmptyTranscript ==
  /\ (/\ op.fn = "_fallback_analysis"
      /\ ret # <<>>
      /\ op.transcript = <<>>
      /\ \A k \in DOMAIN TopicOrder : op.filename \notin TopicWords(TopicOrder[k]))
       => /\ ret[1].instructor_name = NoName
          /\ ret[1].category = "Unknown"
          /\ ret[1].confidence_score = 30
  /\ (op.fn = "extract_instructor_name" /\ ret # <<>> /\ op.transcript = <<>>)
       => ret[1] = NoName

C17_Witness ==
  /\ op = [fn |-> "_fallback_analysis", transcript |-> <<>>, filename |-> "a"]
  /\ ret # <<>>
  /\ ret[1].instructor_name = NoName
  /\ ret[1].category = "Unknown"
  /\ ret[1].confidence_score = 30
  /\ ret[1].extraction_method = <<"content-analyzer-fallback">>

\* C18 as stated: for a transcript "I'm X Y" with capitalized X and Y,
\* followed by further lowercase words, extract_instructor_name returns
\* the name "X Y".
C18_Original ==
  (/\ op.fn = "extract_instructor_name"
   /\ ret # <<>>
   /\ Len(op.transcript) > 3
   /\ op.transcript[1] = "im"
   /\ op.transcript[2] \in CapWords /\ op.transcript[3] \in CapWords
   /\ \A i \in 4..Len(op.transcript) : op.transcript[i] \in AlphaWords \ CapWords)
    => ret[1] = SubSeq(op.transcript, 2, 3)

\* Both guesses of a choose_instructor call carry a name.
BothPresent ==
  /\ op.fn = "choose_instructor"
  /\ op.audio_guess # NoGuess /\ ~IsMissing(op.audio_guess.name)
  /\ op.slide_guess # NoGuess /\ ~IsMissing(op.slide_guess.name)

\* C19: when both guesses carry a name and the names are equal ignoring
\* case, choose_instructor returns that name with confidence
\* round(min(0.99, (audio + slide) / 2 + 0.15), 3) and source
\* "audio+slides", and the confidence is the same with the two arguments
\* exchanged.
C19_AgreeingGuesses ==
  (/\ BothPresent
   /\ ret # <<>>
   /\ NameLower(op.audio_guess.name) = NameLower(op.slide_guess.name))
    => LET a == op.audio_guess.confidence
           s == op.slide_guess.confidence
           mean == ((a + s) * 10) \div 2 + 1500
       IN  /\ NameLower(ret[1].name) = NameLower(op.audio_guess.name)
           /\ ret[1].name \in {op.audio_guess.name, op.slide_guess.name}
           /\ ret[1].confidence = (IF mean > 9900 THEN 9900 ELSE mean) \div 10
           /\ ret[1].source = "audio+slides"
           /\ ret[1].confidence = ChooseInstructor(op.slide_guess, op.audio_guess).confidence

C19_Witness ==
  /\ op.fn = "choose_instructor"
  /\ op.audio_guess = [name |-> <<"John", "Smith">>, confidence |-> 600, source |-> "audio"]
  /\ op.slide_guess = [name |-> <<"john", "smith">>, confidence |-> 500, source |-> "slides"]
  /\ ret = <<[name |-> <<"John", "Smith">>, confidence |-> 700, source |-> "audio+slides"]>>

\* C20 as stated: when both guesses carry names that differ, the slide
\* guess is returned only when its confidence exceeds the audio
\* confidence by more than 0.20, and the audio guess otherwise.
C20_Original ==
  (/\ BothPresent
   /\ ret # <<>>
   /\ NameLower(op.audio_guess.name) # NameLower(op.slide_guess.name))
    => ret[1] = IF op.slide_guess.confidence > op.audio_guess.confidence + 200
                THEN op.slide_guess ELSE op.audio_guess

\* A guess of a choose_instructor call carries a name.
Present(g) == g # NoGuess /\ ~IsMissing(g.name)

\* C21 as stated: when exactly one of the two guesses carries a name,
\* choose_instructor returns that guess, whatever the two confidences.
C21_Original ==
  (op.fn = "choose_instructor" /\ ret # <<>>) =>
    /\ (Present(op.audio_guess) /\ ~Present(op.slide_guess)) => ret[1] = op.audio_guess
    /\ (Present(op.slide_guess) /\ ~Present(op.audio_guess)) => ret[1] = op.slide_guess

\* C22 as stated: extract_instructor_name decides on the first pattern, in
\* declared order, that matches the transcript: it returns that pattern's
\* capture when the validator accepts it, and None when the validator
\* rejects it or when no pattern matches.
C22_Original ==
  (op.fn = "extract_instructor_name" /\ ret # <<>> /\ op.transcript # <<>>) =>
    LET caps == InstructorCaptures(op.transcript)
        matching == {k \in DOMAIN caps : caps[k] # <<>>}
    IN  ret[1] = IF matching = {} THEN NoName
                 ELSE IF IsValidName(caps[SetMin(matching)]) THEN caps[SetMin(matching)]
                 ELSE NoName


\* The number of keyword hits of a category in the text of a
\* detect_category call, transcript + " " + filename.
CategoryScore(c) == Hits(TopicWords(c), op.transcript \o <<op.filename>>)

\* C23: detect_category returns "Unknown" exactly when no category has a
\* keyword hit in transcript + filename; otherwise it returns a category
\* whose count is positive, no smaller than any other category's, and
\* strictly larger than the count of every category declared before it.
\* The category is thus fixed by the input: equal inputs give equal
\* categories.
C23_HighestCountFirstDeclared ==
  (op.fn = "detect_category" /\ ret # <<>>) =>
    IF \A k \in DOMAIN TopicOrder : CategoryScore(TopicOrder[k]) = 0
    THEN ret[1] = "Unknown"
    ELSE \E k \in DOMAIN TopicOrder :
           /\ ret[1] = TopicOrder[k]
           /\ CategoryScore(TopicOrder[k]) > 0
           /\ \A j \in DOMAIN TopicOrder :
                /\ CategoryScore(TopicOrder[j]) <= CategoryScore(TopicOrder[k])
                /\ j < k => CategoryScore(TopicOrder[j]) < CategoryScore(TopicOrder[k])

\* Business and Education share the highest count, two hits each; the
\* first declared of the two is returned.
C23_Witness ==
  /\ op.fn = "detect_category"
  /\ ret = <<"Business">>
  /\ CategoryScore("Business") = 2
  /\ CategoryScore("Education") = 2


\* C24 as stated: when the remote service answers HTTP 200 with a text
\* that holds a JSON object, OllamaBackend.analyze_content returns the
\* fields of that object, not the heuristic fallback result.
C24_Original ==
  (/\ op.fn = "ollama_analyze_content"
   /\ ret # <<>>
   /\ op.available
   /\ op.http.kind = "response"
   /\ op.http.status = 200
   /\ op.http.body # <<>>)
    => ret[1] = Returned(op.http.body[1])


\* The local-model backend answered the call in progress from its except
\* branch, _enhanced_fallback_analysis: the model raised, its text was no
\* JSON object, or float() of the confidence raised.
LlamaFellBack ==
  /\ active = "llama-cpp"
  /\ \/ reply.kind \in {"raise", "text", "json"}
     \/ reply.kind = "object" /\ FloatRaises(reply.data.confidence_score)

\* C25 as stated: when the local-model backend fell back to its heuristics,
\* the extraction_method the manager returns differs from the ones it
\* returns for a genuine model answer, "llama-cpp" and "llama-cpp-enhanced".
C25_Original ==
  (pc = "Terminal" /\ LlamaFellBack) =>
    result.extraction_method \notin {<<"llama-cpp">>, <<"llama-cpp", "-enhanced">>}


\* C26: the extraction_method of every result that went through the
\* enhancer is the one the enhancer was given followed by "-enhanced", and
\* holds "-enhanced" exactly once, whether or not a field was replaced.
C26_EnhancedTaggedOnce ==
  (pc = "Terminal" /\ Enhanced) =>
    /\ result.extraction_method = Append(pre.extraction_method, "-enhanced")
    /\ Cardinality({i \in DOMAIN result.extraction_method :
                      result.extraction_method[i] = "-enhanced"}) = 1

\* The enhancer replaced no field and still appended the tag.
C26_Witness ==
  /\ pc = "Terminal"
  /\ Enhanced
  /\ \A k \in Fields \ {"extraction_method"} : result[k] = pre[k]
  /\ result.extraction_method = <<active, "-enhanced">>


\* C27: no step of an analyze_content call changes the manager's state:
\* the available flag of every backend of self.backends and the active
\* backend stay what the constructor made them, over any sequence of
\* calls, failed ones included.
C27_ManagerStateKept ==
  [][available' = available /\ active' = active]_vars

\* A call whose backend failed has ended in the fallback, and the manager
\* still holds the flags and the active backend it was built with.
C27_Witness ==
  /\ pc = "Terminal"
  /\ Failed
  /\ available[active]
  /\ active = SelectBackend(available)


\* C28 as stated: when the job's status is 'completed', every VideoRecord
\* of the job is 'completed' or 'failed', none 'pending' or 'processing',
\* and processed_files is the number of records with status 'completed'.
C28_Original ==
  job.status = "completed" =>
    /\ \A i \in DOMAIN videos : videos[i] \in {"completed", "failed"}
    /\ job.processed_files =
         Cardinality({i \in DOMAIN videos : videos[i] = "completed"})

\* C29: at every point of a job the committed counters satisfy
\* processed_files + failed_files <= total_files; once the status is
\* 'completed' their sum is total_files and the progress reported by
\* get_job_status is 100%, also when files of the list are over the limit.
C29_CountersReachTotal ==
  /\ job # NoJob =>
       /\ job.processed_files + job.failed_files <= job.total_files
       /\ job.status = "completed" =>
            /\ job.processed_files + job.failed_files = job.total_files
            /\ Progress(job) = 10000
  /\ (polled # NoPoll /\ polled.status = "completed") =>
       polled.progress_percentage = 10000

\* The worker upload_videos schedules has completed a job whose last file
\* is over the limit, and a status request has seen it.
C29_Witness ==
  /\ job # NoJob
  /\ job.status = "completed"
  /\ worker.kind = "sync"
  /\ Len(worker.sizes) = 2
  /\ worker.sizes[2] > SizeLimit
  /\ job.processed_files + job.failed_files = 2
  /\ polled # NoPoll
  /\ polled.status = "completed"

\* The step the worker is about to take handles a video that fails.
VideoFails ==
  \/ /\ worker.pc = "loop"
     /\ worker.kind = "sync"
     /\ worker.i <= Len(worker.sizes)
     /\ SyncVideoOutcome(worker.sizes[worker.i]).kind \in {"raise", "continue"}
  \/ /\ worker.pc = "video"
     /\ ProcessVideoOutcome(worker.sizes[worker.i]).kind = "raise"

\* C30: the job's status moves only along pending -> processing ->
\* completed | failed; a step in which a video fails never sets it to
\* 'failed'; a terminal status never changes; and a worker that has set
\* 'processing' eventually sets a terminal status.
C30_StatusMovesForward ==
  /\ [][/\ job.status = "none" => job'.status \in {"none", "pending"}
        /\ job.status = "pending" => job'.status \in {"pending", "processing"}
        /\ job.status = "processing" =>
             job'.status \in {"processing", "completed", "failed"}
        /\ job.status \in {"completed", "failed"} => job'.status = job.status
        /\ VideoFails => job'.status # "failed"]_vars
  /\ (job.status = "processing") ~> (job.status \in {"completed", "failed"})

\* Every video of a job of two files failed and the job is 'completed'.
C30_Witness ==
  /\ job # NoJob
  /\ job.status = "completed"
  /\ job.total_files = 2
  /\ job.failed_files = 2
  /\ worker.pc = "done"

=============================================================================
